---- MODULE Spec2Model ----
(***************************************************************************)
(* State-machine model of src/src/App.jsx: the device monitor hook         *)
(* (useDeviceMonitor), the tab selection, the terminal buttons, the        *)
(* shutdown confirmation modal, the system-check widget with its report,   *)
(* and the backend calls they issue through invoke().  JavaScript runs the *)
(* handlers one at a time; every action below is one handler, or the       *)
(* continuation of one after its await.                                    *)
(***************************************************************************)
EXTENDS Integers, Sequences, FiniteSets, Bags, TLC

(***************************************************************************)
(* Bounds of the model.                                                    *)
(***************************************************************************)
\* polls issued in one run (the one at mount plus the timer's)
MaxPolls == 2
\* exec_shutdown_command calls outstanding at once
MaxShutdownsInFlight == 2
\* run_system_check calls outstanding at once
MaxChecksInFlight == 2
\* open_ssh_terminal calls outstanding at once
MaxLaunchesInFlight == 2
\* items in the summary of a report
MaxSummaryLen == 3

(***************************************************************************)
(* Values.                                                                 *)
(***************************************************************************)
\* JavaScript null
Null == [isNull |-> TRUE]

Loopback == "127.0.0.1"

MASTER_CONFIG ==
  << [type |-> "computer", sshName |-> "localhost",     uiName |-> "localhost", ip |-> "127.0.0.1",      allowRos |-> TRUE],
     [type |-> "computer", sshName |-> "kyubic_main",   uiName |-> "Main PC",   ip |-> "192.168.50.101", allowRos |-> TRUE],
     [type |-> "computer", sshName |-> "kyubic_jetson", uiName |-> "Jetson",    ip |-> "192.168.9.110",  allowRos |-> FALSE],
     [type |-> "computer", sshName |-> "kyubic_rpi5",   uiName |-> "RPi 5",     ip |-> "192.168.9.120",  allowRos |-> FALSE],
     [type |-> "device", uiName |-> "Sensor (ESP32)", ip |-> "192.168.9.5"],
     [type |-> "device", uiName |-> "DVL",            ip |-> "192.168.9.10"],
     [type |-> "device", uiName |-> "GNSS",           ip |-> "192.168.9.20"],
     [type |-> "device", uiName |-> "Main KVM",       ip |-> "192.168.9.105"],
     [type |-> "device", uiName |-> "Jetson KVM",     ip |-> "192.168.9.115"] >>

IsComputer(item) == item.type = "computer"

\* MASTER_CONFIG.filter(type === "computer").map(...)
COMPUTERS ==
  LET cs == SelectSeq(MASTER_CONFIG, IsComputer)
  IN  [i \in DOMAIN cs |->
         [name |-> cs[i].sshName, displayName |-> cs[i].uiName,
          ip |-> cs[i].ip, allowRos |-> cs[i].allowRos]]

\* MASTER_CONFIG.map(...)
ALL_DEVICES ==
  [i \in DOMAIN MASTER_CONFIG |->
     [name |-> MASTER_CONFIG[i].uiName, ip |-> MASTER_CONFIG[i].ip]]

(***************************************************************************)
(* A JavaScript object with string keys is a sequence of <<key, value>>    *)
(* pairs, in the insertion order that spread and JSON.stringify follow.    *)
(***************************************************************************)
ObjHas(obj, k) == \E i \in DOMAIN obj : obj[i][1] = k

\* !!obj[k]
Truthy(obj, k) == \E i \in DOMAIN obj : obj[i][1] = k /\ obj[i][2] = TRUE

\* { ...obj, [k]: v }: an existing key keeps its place, a new one goes last
ObjSet(obj, k, v) ==
  IF ObjHas(obj, k)
    THEN [i \in DOMAIN obj |-> IF obj[i][1] = k THEN <<k, v>> ELSE obj[i]]
    ELSE Append(obj, <<k, v>>)

\* the members of an object as JSON.stringify writes them: key, ":", value,
\* with "," between one member and the next
RECURSIVE Members(_)
Members(obj) ==
  IF obj = <<>> THEN <<>>
  ELSE <<Head(obj)[1], ":", IF Head(obj)[2] THEN "true" ELSE "false">>
       \o (IF Tail(obj) = <<>> THEN <<>> ELSE <<",">> \o Members(Tail(obj)))

\* JSON.stringify of an object of booleans, as its sequence of tokens
JSONstringify(obj) == <<"{">> \o Members(obj) \o <<"}">>

(***************************************************************************)
(* The backend, seen from the view: what invoke() may resolve to.          *)
(***************************************************************************)
\* (variant) no device is left out of the query
IsAnyDevice(d) == TRUE

IsProbed(d) == d.ip # Loopback

\* devices.filter(d => d.ip !== "127.0.0.1").map(d => d.ip)
Targets ==
  LET ds == SelectSeq(ALL_DEVICES, IsProbed)
  IN  [i \in DOMAIN ds |-> ds[i].ip]

Reversed(s) == [i \in DOMAIN s |-> s[Len(s) + 1 - i]]

\* the probed IPs the backend may report reachable (the others it reports down)
Varying == {"192.168.50.101", "192.168.9.110"}

\* a result of check_batch_connections: one entry per key, true for the
\* reachable ones
BatchResult(keys, online) == [i \in DOMAIN keys |-> <<keys[i], keys[i] \in online>>]

\* the results a query for targets may resolve to: the targets in the order
\* asked or in another order, or with an entry for 127.0.0.1 as well
BatchResults(targets) ==
  {BatchResult(keys, online) :
     keys \in {targets, Reversed(targets), <<Loopback>> \o targets},
     online \in SUBSET Varying}

\* the results of the view's query
PossibleResults == BatchResults(Targets)

CheckItem(n, s, d) == [name |-> n, description |-> n, status |-> s, details |-> d]

\* the reports run_system_check may resolve to, for the host it was asked about
Reports(hostname) ==
  { [forHost |-> hostname, detailed |-> "",
     summary |-> <<CheckItem("a", "PASS", ""), CheckItem("b", "PASS", "")>>],
    [forHost |-> hostname, detailed |-> "log",
     summary |-> <<CheckItem("a", "PASS", ""), CheckItem("b", "FAIL", "x"),
                   CheckItem("c", "PASS", "")>>] }

\* the summaries of up to MaxSummaryLen items, passed or failed in any order,
\* the same item possibly more than once; the items "b" come with details
Summaries ==
  UNION {[1..n -> {CheckItem(name, status, IF name = "b" THEN "x" ELSE "") :
                     name \in {"a", "b"}, status \in {"PASS", "FAIL"}}] :
           n \in 0..MaxSummaryLen}

\* the reports run_system_check may resolve to, over all those summaries
AllReports(hostname) ==
  {[forHost |-> hostname, detailed |-> "", summary |-> summary] : summary \in Summaries}

RemoveAt(s, i) == [j \in 1..(Len(s) - 1) |-> IF j < i THEN s[j] ELSE s[j + 1]]

(***************************************************************************)
(* State.                                                                  *)
(***************************************************************************)
VARIABLES
  isLinux,        \* navigator.userAgent includes "linux"
  phase,          \* "rendered" (effects not yet run), "mounted", "unmounted"
  timerOn,        \* the setInterval timer exists
  issued,         \* check_batch_connections calls issued so far, numbered from 1
  pending,        \* the numbers of those still outstanding
  deviceStatus,   \* the stored status object: its identity (ref) and its entries
  nextStatus,     \* the object the latest successful poll built (Null before)
  queryTargets,   \* the targets argument of the latest query (Null before)
  activeTab,      \* index into COMPUTERS, from 0
  shutdownTarget, \* Null or the computer the confirmation is open for
  arming,         \* Null while the gate is idle, else the history of the open
                  \* confirmation: the computer last asked for, whether another
                  \* one was pending then, and whether a confirm followed ("no",
                  \* or "here" / "elsewhere": with that computer's tab active or
                  \* another), and whether the computer's entry was true at
                  \* the latest confirm (true until one comes)
  shutdownCalls,  \* the bag of exec_shutdown_command calls outstanding
  checkResult,    \* Null or the stored report
  isChecking,
  isReportOpen,
  checkCalls,     \* run_system_check calls outstanding
  lastCheck,      \* Null or, of the stored report: the host its call named and
                  \* whether the active tab changed while the call was outstanding
  modal,          \* Null or the local state of the CheckResultModal on screen:
                  \* showPassItems, showDetails and the keys of the item cards
                  \* whose details are open
  closedModal,    \* Null or the local state of the modal last taken off screen
  sshCalls,       \* the bag of open_ssh_terminal calls outstanding; each notes
                  \* the button that made it (the computer shown, Docker & ROS or not)
  alert           \* Null or the blocking alert() on screen

vars == <<isLinux, phase, timerOn, issued, pending, deviceStatus, nextStatus, activeTab,
          shutdownTarget, arming, shutdownCalls, checkResult, isChecking, isReportOpen,
          checkCalls, lastCheck, alert, queryTargets, sshCalls, modal, closedModal>>

monitorVars == <<issued, pending, deviceStatus, nextStatus, queryTargets>>
launchVars == <<sshCalls>>
gateVars == <<shutdownTarget, arming, shutdownCalls>>
modalVars == <<modal, closedModal>>
checkVars == <<checkResult, isChecking, isReportOpen, checkCalls, lastCheck, modal, closedModal>>

Init ==
  /\ isLinux \in BOOLEAN
  /\ phase = "rendered"
  /\ timerOn = FALSE
  /\ issued = 0
  /\ pending = {}
  /\ deviceStatus = [ref |-> 0, entries |-> <<>>]
  /\ nextStatus = Null
  /\ queryTargets = Null
  /\ activeTab = 0
  /\ shutdownTarget = Null
  /\ arming = Null
  /\ shutdownCalls = EmptyBag
  /\ checkResult = Null
  /\ isChecking = FALSE
  /\ isReportOpen = FALSE
  /\ checkCalls = <<>>
  /\ lastCheck = Null
  /\ modal = Null
  /\ closedModal = Null
  /\ sshCalls = EmptyBag
  /\ alert = Null

(***************************************************************************)
(* Derived values of a render.                                             *)
(***************************************************************************)
currentRobot == COMPUTERS[activeTab + 1]

isOnline == Truthy(deviceStatus.entries, currentRobot.ip)

mainRobot == CHOOSE r \in {COMPUTERS[i] : i \in DOMAIN COMPUTERS} : r.name = "kyubic_main"

isMainOnline == Truthy(deviceStatus.entries, mainRobot.ip)

\* the view handles events: mounted, and no alert() blocking the thread
Interactive == phase = "mounted" /\ alert = Null

TabShown(idx) == COMPUTERS[idx + 1].ip # Loopback \/ isLinux

\* StatusChip: the class of a chip
ChipClass(online) == IF online THEN "chip-online" ELSE "chip-offline"

\* NetworkStatusGrid: the chip of a device, isOnline={!!statuses[d.ip]}
GridChip(d) == ChipClass(Truthy(deviceStatus.entries, d.ip))

\* the class of the tab's content
TabMode == IF isOnline THEN "online-mode" ELSE "offline-mode"

\* (variant) the button stays enabled while a check runs
CheckBtnIgnoresRunning == ~isMainOnline

checkBtnDisabled == isChecking \/ ~isMainOnline

(***************************************************************************)
(* The monitor.                                                            *)
(***************************************************************************)
\* updateStatuses up to its await: one batched query
IssuePoll ==
  /\ issued' = issued + 1
  /\ pending' = pending \cup {issued + 1}
  /\ queryTargets' = Targets

\* the effect of useDeviceMonitor: poll at once and start the timer
Mount ==
  /\ phase = "rendered"
  /\ issued < MaxPolls
  /\ phase' = "mounted"
  /\ timerOn' = TRUE
  /\ IssuePoll
  /\ UNCHANGED <<isLinux, launchVars, deviceStatus, nextStatus, activeTab, gateVars, checkVars, alert>>

\* (variant) the timer's poll is skipped while a query is outstanding
TickUnlessPending ==
  /\ timerOn
  /\ alert = Null
  /\ issued < MaxPolls
  /\ pending = {}
  /\ IssuePoll
  /\ UNCHANGED <<isLinux, launchVars, phase, timerOn, deviceStatus, nextStatus, activeTab,
                 gateVars, checkVars, alert>>

\* the timer fires
Tick ==
  /\ timerOn
  /\ alert = Null
  /\ issued < MaxPolls
  /\ IssuePoll
  /\ UNCHANGED <<isLinux, launchVars, phase, timerOn, deviceStatus, nextStatus, activeTab,
                 gateVars, checkVars, alert>>

\* { ...prev, ...next }
RECURSIVE SpreadOver(_, _)
SpreadOver(prev, next) ==
  IF next = <<>> THEN prev
  ELSE SpreadOver(ObjSet(prev, Head(next)[1], Head(next)[2]), Tail(next))

\* (variant) the new entries are merged into the stored object
ReconcileMerging(prev, next) ==
  IF JSONstringify(prev.entries) = JSONstringify(next.entries) THEN prev
  ELSE [ref |-> next.ref, entries |-> SpreadOver(prev.entries, next.entries)]

\* setDeviceStatus(prev => ...): prev kept when the two serialize alike
Reconcile(prev, next) ==
  IF JSONstringify(prev.entries) = JSONstringify(next.entries) THEN prev ELSE next

\* (variant) the response is stored as it came
PollResolvedAsIs(id, result) ==
  LET built == [ref |-> id, entries |-> result]
  IN  /\ nextStatus' = built
      /\ deviceStatus' = Reconcile(deviceStatus, built)
      /\ pending' = pending \ {id}
      /\ UNCHANGED <<issued, queryTargets>>

\* updateStatuses after its await, the query having resolved to result
PollResolved(id, result) ==
  LET built == [ref |-> id, entries |-> ObjSet(result, Loopback, TRUE)]
  IN  /\ nextStatus' = built
      /\ deviceStatus' = Reconcile(deviceStatus, built)
      /\ pending' = pending \ {id}
      /\ UNCHANGED <<issued, queryTargets>>

\* (variant) a failed query marks every probed device unreachable
PollRejectedMarksOffline(id) ==
  /\ pending' = pending \ {id}
  /\ deviceStatus' = [ref |-> id, entries |-> ObjSet(BatchResult(Targets, {}), Loopback, TRUE)]
  /\ UNCHANGED <<issued, nextStatus, queryTargets>>

\* updateStatuses after its await, the query having failed: console.error only
PollRejected(id) ==
  /\ pending' = pending \ {id}
  /\ UNCHANGED <<issued, deviceStatus, nextStatus, queryTargets>>

PollOk ==
  /\ phase = "mounted"
  /\ alert = Null
  /\ \E id \in pending :
       \E result \in PossibleResults : PollResolved(id, result)
  /\ UNCHANGED <<isLinux, launchVars, phase, timerOn, activeTab, gateVars, checkVars, alert>>

PollFailed ==
  /\ phase = "mounted"
  /\ alert = Null
  /\ \E id \in pending : PollRejected(id)
  /\ UNCHANGED <<isLinux, launchVars, phase, timerOn, activeTab, gateVars, checkVars, alert>>

\* (variant) the cleanup leaves the timer alone
UnmountKeepsTimer ==
  /\ phase = "mounted"
  /\ alert = Null
  /\ phase' = "unmounted"
  /\ UNCHANGED <<isLinux, launchVars, timerOn, monitorVars, activeTab, gateVars, checkVars, alert>>

\* the effect's cleanup
Unmount ==
  /\ phase = "mounted"
  /\ alert = Null
  /\ phase' = "unmounted"
  /\ timerOn' = FALSE
  /\ UNCHANGED <<isLinux, launchVars, monitorVars, activeTab, gateVars, checkVars, alert>>

(***************************************************************************)
(* The tabs.                                                               *)
(***************************************************************************)
\* (variant) the index stored counts the tabs from one
setActiveTabFromOne(idx) == idx + 1

\* the setter of useState(0): the value of activeTab after setActiveTab(idx)
setActiveTab(idx) == idx

\* onClick of a tab button: setActiveTab(idx)
SetActiveTab ==
  /\ Interactive
  /\ \E idx \in 0..(Len(COMPUTERS) - 1) :
       /\ TabShown(idx)
       /\ activeTab' = setActiveTab(idx)
  /\ UNCHANGED <<isLinux, launchVars, phase, timerOn, monitorVars, gateVars, checkVars, alert>>

(***************************************************************************)
(* The shutdown confirmation.                                              *)
(***************************************************************************)
\* (variant) a pending confirmation is kept when another is asked for
ArmFirstWins(target) == IF shutdownTarget = Null THEN target ELSE shutdownTarget

\* setShutdownTarget(target)
Arm(target) == target

\* (variant) the shutdown button calls the backend itself
OneClickShutdown ==
  /\ shutdownCalls' = shutdownCalls (+) SetToBag({[hostname |-> currentRobot.name]})
  /\ UNCHANGED shutdownTarget

\* onClick of the shutdown button: setShutdownTarget(currentRobot)
ShutdownButtonClick ==
  /\ shutdownTarget' = Arm(currentRobot)
  /\ UNCHANGED shutdownCalls

RequestShutdown ==
  /\ Interactive
  /\ isOnline
  /\ ShutdownButtonClick
  /\ arming' = [target |-> currentRobot,
                replaced |-> shutdownTarget # Null /\ shutdownTarget # currentRobot,
                confirmed |-> "no", seenUp |-> TRUE]
  /\ UNCHANGED <<isLinux, launchVars, phase, timerOn, monitorVars, activeTab, checkVars, alert>>

\* onCancel of the modal: setShutdownTarget(null)
CancelShutdown ==
  /\ Interactive
  /\ shutdownTarget # Null
  /\ shutdownTarget' = Null
  /\ arming' = Null
  /\ UNCHANGED <<isLinux, launchVars, phase, timerOn, monitorVars, activeTab, shutdownCalls,
                 checkVars, alert>>

\* (variant) the shutdown goes to the computer of the active tab
ActiveHost == currentRobot.name

\* the hostname argument of exec_shutdown_command
ShutdownHost == shutdownTarget.name

\* (variant) the shutdown is dispatched only while the computer is seen up
ExecuteShutdownIfUp ==
  /\ Interactive
  /\ shutdownTarget # Null
  /\ Truthy(deviceStatus.entries, shutdownTarget.ip)
  /\ BagCardinality(shutdownCalls) < MaxShutdownsInFlight
  /\ shutdownCalls' = shutdownCalls (+) SetToBag({[hostname |-> ShutdownHost]})
  /\ arming' = [arming EXCEPT
                  !.confirmed = IF currentRobot = shutdownTarget THEN "here" ELSE "elsewhere",
                  !.seenUp = TRUE]
  /\ UNCHANGED <<isLinux, launchVars, phase, timerOn, monitorVars, activeTab, shutdownTarget,
                 checkVars, alert>>

\* executeShutdown up to its await
ExecuteShutdown ==
  /\ Interactive
  /\ shutdownTarget # Null
  /\ BagCardinality(shutdownCalls) < MaxShutdownsInFlight
  /\ shutdownCalls' = shutdownCalls (+) SetToBag({[hostname |-> ShutdownHost]})
  /\ arming' = [arming EXCEPT
                  !.confirmed = IF currentRobot = shutdownTarget THEN "here" ELSE "elsewhere",
                  !.seenUp = Truthy(deviceStatus.entries, shutdownTarget.ip)]
  /\ UNCHANGED <<isLinux, launchVars, phase, timerOn, monitorVars, activeTab, shutdownTarget,
                 checkVars, alert>>

\* executeShutdown after its await, the call having resolved
ShutdownResolved(call) ==
  /\ shutdownCalls' = shutdownCalls (-) SetToBag({call})
  /\ shutdownTarget' = Null
  /\ alert' = Null

\* executeShutdown after its await, the call having failed: alert(...)
ShutdownRejected(call) ==
  /\ shutdownCalls' = shutdownCalls (-) SetToBag({call})
  /\ shutdownTarget' = shutdownTarget
  /\ alert' = [from |-> "exec_shutdown_command"]

ShutdownOk ==
  /\ Interactive
  /\ \E call \in BagToSet(shutdownCalls) : ShutdownResolved(call)
  /\ arming' = Null
  /\ UNCHANGED <<isLinux, launchVars, phase, timerOn, monitorVars, activeTab, checkVars>>

ShutdownFailed ==
  /\ Interactive
  /\ \E call \in BagToSet(shutdownCalls) : ShutdownRejected(call)
  /\ UNCHANGED <<isLinux, launchVars, phase, timerOn, monitorVars, activeTab, arming, checkVars>>

(***************************************************************************)
(* The report: the two groups of the modal and the counts of the card.     *)
(***************************************************************************)
IsFail(i) == i.status = "FAIL"

\* (variant) every item counts as passed
IsChecked(i) == TRUE

IsPass(i) == i.status = "PASS"

\* result?.summary.filter(i => i.status === "FAIL") || []
fails(result) == IF result = Null THEN <<>> ELSE SelectSeq(result.summary, IsFail)

\* result?.summary.filter(i => i.status === "PASS") || []
passes(result) == IF result = Null THEN <<>> ELSE SelectSeq(result.summary, IsPass)

failCount == IF checkResult = Null THEN 0 ELSE Len(SelectSeq(checkResult.summary, IsFail))

passCount == IF checkResult = Null THEN 0 ELSE Len(SelectSeq(checkResult.summary, IsPass))

\* the status card is rendered
StatusCardShown == checkResult # Null /\ ~isChecking

\* the report modal is rendered
ReportShown == isReportOpen /\ checkResult # Null

\* (variant) the modal is hidden, not unmounted, and comes back as it was left
ModalAsLeft ==
  IF closedModal = Null
    THEN [showPassItems |-> FALSE, showDetails |-> FALSE, open |-> {}]
    ELSE closedModal

\* the local state of a CheckResultModal just mounted: useState(false) twice,
\* and useState(false) in every CheckItemCard
ModalDefaults == [showPassItems |-> FALSE, showDetails |-> FALSE, open |-> {}]

\* the local state of the modal after a render in which it is shown or not:
\* mounted with the defaults, kept while it stays, gone when it is not shown
RenderModal(shown) ==
  IF shown THEN (IF modal # Null THEN modal ELSE ModalDefaults) ELSE Null

\* the local state last taken off screen, after that render
ModalTakenOff(shown) == IF modal # Null /\ ~shown THEN modal ELSE closedModal

\* the keys of the cards of a group: fail-0, fail-1, ... / pass-0, pass-1, ...
CardKeys(group, items) == {<<group, idx>> : idx \in 0..(Len(items) - 1)}

\* the item a card shows
CardItem(key, result) ==
  IF key[1] = "fail" THEN fails(result)[key[2] + 1] ELSE passes(result)[key[2] + 1]

\* the cards on screen: the failed items always, the passed ones when disclosed
VisibleCards(m, result) ==
  CardKeys("fail", fails(result))
    \cup (IF m.showPassItems THEN CardKeys("pass", passes(result)) ELSE {})

\* const hasDetails = !!item.details
hasDetails(item) == item.details # ""

(***************************************************************************)
(* The system check.                                                       *)
(***************************************************************************)
\* the hostname argument of run_system_check
CheckHost == "kyubic_main"

\* (variant) the stored report is kept while the new check runs
StartCheckKeepsResult ==
  /\ isChecking' = TRUE
  /\ checkResult' = checkResult
  /\ checkCalls' = Append(checkCalls,
                          [hostname |-> CheckHost, tab |-> activeTab, prior |-> checkResult])

\* handleSystemCheck up to its await; each call notes the tab active then
\* and the report stored before
StartCheck ==
  /\ isChecking' = TRUE
  /\ checkResult' = Null
  /\ checkCalls' = Append(checkCalls,
                          [hostname |-> CheckHost, tab |-> activeTab, prior |-> checkResult])

HandleSystemCheck ==
  /\ Interactive
  /\ ~checkBtnDisabled
  /\ Len(checkCalls) < MaxChecksInFlight
  /\ StartCheck
  /\ modal' = RenderModal(isReportOpen /\ checkResult' # Null)
  /\ closedModal' = ModalTakenOff(isReportOpen /\ checkResult' # Null)
  /\ UNCHANGED <<isLinux, launchVars, phase, timerOn, monitorVars, activeTab, gateVars,
                 isReportOpen, lastCheck, alert>>

\* (variant) a report is dropped when the operator has changed tab meanwhile
CheckResolvedOnSameTab(i, report) ==
  /\ checkCalls' = RemoveAt(checkCalls, i)
  /\ checkResult' = IF checkCalls[i].tab = activeTab THEN report ELSE checkResult
  /\ lastCheck' = [hostname |-> checkCalls[i].hostname,
                   tabChanged |-> checkCalls[i].tab # activeTab]
  /\ isChecking' = FALSE

\* handleSystemCheck after its await, the call having resolved to report
CheckResolved(i, report) ==
  /\ checkCalls' = RemoveAt(checkCalls, i)
  /\ checkResult' = report
  /\ lastCheck' = [hostname |-> checkCalls[i].hostname,
                   tabChanged |-> checkCalls[i].tab # activeTab]
  /\ isChecking' = FALSE

\* handleSystemCheck after its await, the call having failed: alert(...),
\* which holds the finally block back until it is dismissed
CheckRejected(i) ==
  /\ checkCalls' = RemoveAt(checkCalls, i)
  /\ alert' = [from |-> "run_system_check", prior |-> checkCalls[i].prior]
  /\ UNCHANGED <<checkResult, lastCheck, isChecking>>

CheckOk ==
  /\ Interactive
  /\ \E i \in DOMAIN checkCalls :
       \E report \in Reports(checkCalls[i].hostname) : CheckResolved(i, report)
  /\ modal' = RenderModal(isReportOpen /\ checkResult' # Null)
  /\ closedModal' = ModalTakenOff(isReportOpen /\ checkResult' # Null)
  /\ UNCHANGED <<isLinux, launchVars, phase, timerOn, monitorVars, activeTab, gateVars,
                 isReportOpen, alert>>

CheckFailed ==
  /\ Interactive
  /\ \E i \in DOMAIN checkCalls : CheckRejected(i)
  /\ UNCHANGED <<isLinux, launchVars, phase, timerOn, monitorVars, activeTab, gateVars,
                 isReportOpen, modalVars>>

\* onClick of the status card: setIsReportOpen(true)
OpenReport ==
  /\ Interactive
  /\ checkResult # Null /\ ~isChecking
  /\ isReportOpen' = TRUE
  /\ modal' = RenderModal(TRUE)
  /\ closedModal' = ModalTakenOff(TRUE)
  /\ UNCHANGED <<isLinux, launchVars, phase, timerOn, monitorVars, activeTab, gateVars,
                 checkResult, isChecking, checkCalls, lastCheck, alert>>

\* onClose of the report modal: setIsReportOpen(false)
CloseReport ==
  /\ Interactive
  /\ isReportOpen /\ checkResult # Null
  /\ isReportOpen' = FALSE
  /\ modal' = RenderModal(FALSE)
  /\ closedModal' = ModalTakenOff(FALSE)
  /\ UNCHANGED <<isLinux, launchVars, phase, timerOn, monitorVars, activeTab, gateVars,
                 checkResult, isChecking, checkCalls, lastCheck, alert>>

\* the handlers of the modal leave everything outside it alone
ModalOnly ==
  UNCHANGED <<isLinux, launchVars, phase, timerOn, monitorVars, activeTab, gateVars,
              checkResult, isChecking, isReportOpen, checkCalls, lastCheck, closedModal, alert>>

\* onClick of the Passed Checks button: setShowPassItems(!showPassItems); the
\* cards of the passed items are unmounted with their list
TogglePassItems ==
  /\ Interactive
  /\ modal # Null
  /\ Len(passes(checkResult)) > 0
  /\ modal' = [modal EXCEPT
                 !.showPassItems = ~modal.showPassItems,
                 !.open = IF modal.showPassItems
                            THEN {key \in modal.open : key[1] # "pass"}
                            ELSE modal.open]
  /\ ModalOnly

\* onClick of the raw log link: setShowDetails(!showDetails)
ToggleRawLog ==
  /\ Interactive
  /\ modal # Null
  /\ modal' = [modal EXCEPT !.showDetails = ~modal.showDetails]
  /\ ModalOnly

\* onClick of a card's header: hasDetails && setIsOpen(!isOpen)
ToggleCard ==
  /\ Interactive
  /\ modal # Null
  /\ \E key \in VisibleCards(modal, checkResult) :
       /\ hasDetails(CardItem(key, checkResult))
       /\ modal' = [modal EXCEPT
                      !.open = IF key \in modal.open
                                 THEN modal.open \ {key}
                                 ELSE modal.open \cup {key}]
  /\ ModalOnly

(***************************************************************************)
(* The terminal launch.                                                    *)
(***************************************************************************)
commandStr == "ros2_start -- bash -i -c byobu"

\* (variant) the bootstrap command goes with every launch
OpenSshArgsAlwaysBootstrap(robot, useRos) ==
  [hostname |-> robot.name, ip |-> robot.ip, runRos |-> useRos, remoteCommand |-> commandStr]

\* the arguments handleLaunchSSH gives open_ssh_terminal
OpenSshArgs(robot, useRos) ==
  [hostname |-> robot.name, ip |-> robot.ip, runRos |-> useRos,
   remoteCommand |-> IF useRos THEN commandStr ELSE ""]

\* handleLaunchSSH(robot, useRos) up to its await; the call notes its button
HandleLaunchSSH(robot, useRos) ==
  sshCalls' = sshCalls (+) SetToBag({[args |-> OpenSshArgs(robot, useRos),
                                      button |-> [robot |-> robot.name, useRos |-> useRos]]})

\* (variant) the buttons are there whatever the status of the computer
TerminalAlwaysOffered == TRUE

\* the Terminal button is rendered
TerminalOffered == isOnline

\* the Docker & ROS button is rendered
RosOffered == isOnline /\ currentRobot.allowRos

\* onClick of one of the two buttons
LaunchSSH ==
  /\ Interactive
  /\ BagCardinality(sshCalls) < MaxLaunchesInFlight
  /\ \E useRos \in BOOLEAN :
       /\ IF useRos THEN RosOffered ELSE TerminalOffered
       /\ HandleLaunchSSH(currentRobot, useRos)
  /\ UNCHANGED <<isLinux, phase, timerOn, monitorVars, activeTab, gateVars, checkVars, alert>>

\* handleLaunchSSH after its await, the call having resolved
SshOk ==
  /\ Interactive
  /\ \E call \in BagToSet(sshCalls) : sshCalls' = sshCalls (-) SetToBag({call})
  /\ UNCHANGED <<isLinux, phase, timerOn, monitorVars, activeTab, gateVars, checkVars, alert>>

\* (variant) a failed launch is tried again
SshFailedRetries ==
  /\ Interactive
  /\ sshCalls # EmptyBag
  /\ sshCalls' = sshCalls
  /\ alert' = [from |-> "open_ssh_terminal"]
  /\ UNCHANGED <<isLinux, phase, timerOn, monitorVars, activeTab, gateVars, checkVars>>

\* handleLaunchSSH after its await, the call having failed: alert(...)
SshFailed ==
  /\ Interactive
  /\ \E call \in BagToSet(sshCalls) : sshCalls' = sshCalls (-) SetToBag({call})
  /\ alert' = [from |-> "open_ssh_terminal"]
  /\ UNCHANGED <<isLinux, phase, timerOn, monitorVars, activeTab, gateVars, checkVars>>

(***************************************************************************)
(* alert() returns when the operator dismisses it; the handler that raised *)
(* it then runs on: the finally block of handleSystemCheck.                *)
(***************************************************************************)
\* (variant) the flag is lowered only when the call has returned a report
DismissAlertOnly ==
  /\ phase = "mounted"
  /\ alert # Null
  /\ alert' = Null
  /\ UNCHANGED <<isLinux, launchVars, phase, timerOn, monitorVars, activeTab, gateVars,
                 checkVars>>

DismissAlert ==
  /\ phase = "mounted"
  /\ alert # Null
  /\ alert' = Null
  /\ isChecking' = IF alert.from = "run_system_check" THEN FALSE ELSE isChecking
  /\ UNCHANGED <<isLinux, launchVars, phase, timerOn, monitorVars, activeTab, gateVars,
                 checkResult, isReportOpen, checkCalls, lastCheck, modalVars>>

NextMonitor ==
  \/ Mount
  \/ Tick
  \/ PollOk
  \/ PollFailed

NextGate ==
  \/ RequestShutdown
  \/ CancelShutdown
  \/ ExecuteShutdown
  \/ ShutdownOk
  \/ ShutdownFailed

NextCheck ==
  \/ HandleSystemCheck
  \/ CheckOk
  \/ CheckFailed
  \/ OpenReport
  \/ CloseReport

NextModal ==
  \/ TogglePassItems
  \/ ToggleRawLog
  \/ ToggleCard

NextLaunch ==
  \/ LaunchSSH
  \/ SshOk
  \/ SshFailed

Next ==
  \/ Mount
  \/ Tick
  \/ PollOk
  \/ PollFailed
  \/ Unmount
  \/ SetActiveTab
  \/ RequestShutdown
  \/ CancelShutdown
  \/ ExecuteShutdown
  \/ ShutdownOk
  \/ ShutdownFailed
  \/ HandleSystemCheck
  \/ CheckOk
  \/ CheckFailed
  \/ OpenReport
  \/ CloseReport
  \/ TogglePassItems
  \/ ToggleRawLog
  \/ ToggleCard
  \/ LaunchSSH
  \/ SshOk
  \/ SshFailed
  \/ DismissAlert

\* the whole view
Spec == Init /\ [][Next]_vars

(***************************************************************************)
(* The behaviours of the view in which the operator leaves one widget      *)
(* alone.  The shutdown handlers and the system-check handlers write       *)
(* disjoint state, so each is checked with the monitor and the tabs only.  *)
(***************************************************************************)
\* the operator uses the tabs only, and may close the view
SpecMonitor == Init /\ [][NextMonitor \/ Unmount \/ SetActiveTab]_vars

\* the view stays open and the operator leaves the system check alone
SpecGate == Init /\ [][NextMonitor \/ SetActiveTab \/ NextGate \/ DismissAlert]_vars

\* the view stays open and the operator leaves the shutdown button alone
SpecCheck == Init /\ [][NextMonitor \/ SetActiveTab \/ NextCheck \/ DismissAlert]_vars

\* The view with a report stored: the first poll found every computer that
\* answers up, a system check of the main PC followed and resolved to any of
\* the reports.
InitReport ==
  /\ isLinux \in BOOLEAN
  /\ phase = "mounted"
  /\ timerOn = TRUE
  /\ issued = 1
  /\ pending = {}
  /\ deviceStatus = [ref |-> 1, entries |-> ObjSet(BatchResult(Targets, Varying), Loopback, TRUE)]
  /\ nextStatus = deviceStatus
  /\ queryTargets = Targets
  /\ activeTab = 0
  /\ shutdownTarget = Null
  /\ arming = Null
  /\ shutdownCalls = EmptyBag
  /\ checkResult \in AllReports(CheckHost)
  /\ isChecking = FALSE
  /\ isReportOpen = FALSE
  /\ checkCalls = <<>>
  /\ lastCheck = [hostname |-> CheckHost, tabChanged |-> FALSE]
  /\ modal = Null
  /\ closedModal = Null
  /\ sshCalls = EmptyBag
  /\ alert = Null

\* the operator opens and closes the report and uses its toggles
SpecReport == InitReport /\ [][OpenReport \/ CloseReport \/ NextModal]_vars

\* the view stays open and the operator uses the tabs, the terminal buttons
\* and the system check, up to the return of the calls these make
SpecDispatch ==
  Init /\ [][NextMonitor \/ SetActiveTab \/ LaunchSSH \/ HandleSystemCheck]_vars

\* the view stays open and the operator uses the tabs and the terminal buttons
SpecLaunch == Init /\ [][NextMonitor \/ SetActiveTab \/ NextLaunch \/ DismissAlert]_vars

(***************************************************************************)
(* Steps, told by what they do to the calls outstanding.                   *)
(***************************************************************************)
ShutdownIssued == BagCardinality(shutdownCalls') = BagCardinality(shutdownCalls) + 1

NewShutdownCall ==
  CHOOSE call \in BagToSet(shutdownCalls') :
    CopiesIn(call, shutdownCalls') > CopiesIn(call, shutdownCalls)

ShutdownCompleted == BagCardinality(shutdownCalls') = BagCardinality(shutdownCalls) - 1

ReturnedShutdownCall ==
  CHOOSE call \in BagToSet(shutdownCalls) :
    CopiesIn(call, shutdownCalls') < CopiesIn(call, shutdownCalls)

\* a poll's query failed: it is no longer outstanding and no object was built from it
PollFailedStep == pending' # pending /\ pending' \subseteq pending /\ nextStatus' = nextStatus

\* a poll's query succeeded: an object was built from its result
PollOkStep == nextStatus' # nextStatus

LaunchIssued == BagCardinality(sshCalls') = BagCardinality(sshCalls) + 1

NewSshCall ==
  CHOOSE call \in BagToSet(sshCalls') : CopiesIn(call, sshCalls') > CopiesIn(call, sshCalls)

CheckIssued == Len(checkCalls') = Len(checkCalls) + 1

NewCheckCall == checkCalls'[Len(checkCalls')]

\* the stored status object has no entry for ip, or a false one
EntryFalseOrAbsent(ip) ==
  \A i \in DOMAIN deviceStatus.entries : deviceStatus.entries[i] # <<ip, TRUE>>

CheckCompleted == Len(checkCalls') = Len(checkCalls) - 1

\* the alert of a failed system check goes up / is dismissed
CheckAlertRaised == alert = Null /\ alert' # Null /\ alert'.from = "run_system_check"

CheckAlertDismissed == alert # Null /\ alert.from = "run_system_check" /\ alert' = Null

\* two objects with the same keys mapped to the same values, in whatever order
SameMapping(a, b) == {a[i] : i \in DOMAIN a} = {b[i] : i \in DOMAIN b}

(***************************************************************************)
(* The shutdown confirmation.                                              *)
(***************************************************************************)
\* C1: every completion of a backend shutdown call, successful or failed,
\* leaves the confirmation gate idle (shutdownTarget null).
ConfirmAlwaysReturnsToIdle ==
  [][ShutdownCompleted => shutdownTarget' = Null]_vars

\* C2: each shutdown call carries the name of the computer captured when the
\* gate was armed, whatever tab is active when the operator confirms.
ConfirmDispatchesArmedTarget ==
  [][ShutdownIssued =>
       /\ arming # Null
       /\ NewShutdownCall.hostname = arming.target.name]_vars

\* a confirm came while another computer's tab was active, and its call is out
ConfirmedOnOtherTab ==
  /\ arming # Null
  /\ arming.confirmed = "elsewhere"
  /\ \E call \in BagToSet(shutdownCalls) :
       /\ call.hostname = arming.target.name
       /\ call.hostname # currentRobot.name

\* C3: a step that arms the gate (or finds it idle) issues no shutdown call;
\* a call is issued only by a step that finds the gate armed, for the armed
\* computer, and leaves it armed.
ShutdownNeverOneClick ==
  [][/\ (shutdownTarget = Null \/ shutdownTarget' # shutdownTarget) => ~ShutdownIssued
     /\ ShutdownIssued =>
          /\ shutdownTarget # Null
          /\ shutdownTarget' = shutdownTarget
          /\ NewShutdownCall.hostname = shutdownTarget.name]_vars

\* the gate is armed and the confirmed call for its computer is outstanding
ArmedAndConfirmed ==
  /\ shutdownTarget # Null
  /\ BagIn([hostname |-> shutdownTarget.name], shutdownCalls)
  /\ arming.confirmed # "no"

\* C7: while a confirmation is open the gate holds the computer last asked
\* for and nothing else; a confirm that follows a request which replaced
\* another computer's calls the backend once, for the computer last asked for.
LastRequestWins ==
  [][/\ arming' # Null => shutdownTarget' = arming'.target
     /\ (ShutdownIssued /\ arming # Null /\ arming.replaced) =>
          /\ NewShutdownCall.hostname = arming.target.name
          /\ \A call \in BagToSet(shutdownCalls') :
               call # NewShutdownCall => CopiesIn(call, shutdownCalls') = CopiesIn(call, shutdownCalls)]_vars

\* A was pending, B was asked for, and the confirm's call for B is outstanding
RearmedAndConfirmed ==
  /\ arming # Null
  /\ arming.replaced
  /\ arming.confirmed # "no"
  /\ BagIn([hostname |-> arming.target.name], shutdownCalls)

\* C25: a confirmation issues at most one shutdown call: a step that issues
\* one finds a confirmation open for which none has been issued yet.
OneCallPerArming ==
  [][ShutdownIssued => (arming # Null /\ arming.confirmed = "no")]_vars

\* C26: the successful return of a shutdown call for one computer leaves
\* alone a confirmation open for another computer, for which no confirm has
\* come yet.
ReturnClearsOwnConfirmationOnly ==
  [][(/\ ShutdownCompleted
      /\ alert' = Null
      /\ arming # Null
      /\ arming.confirmed = "no"
      /\ ReturnedShutdownCall.hostname # shutdownTarget.name) =>
       shutdownTarget' = shutdownTarget]_vars

\* C22: a response of the monitor leaves the confirmation as it is; while a
\* confirmation is open (the thread free, the bound on calls not reached) the
\* confirm can run whatever the entry of its computer, and the call it
\* issues is for that computer.
ShutdownAttemptedThoughOffline ==
  /\ [](/\ shutdownTarget # Null
        /\ Interactive
        /\ BagCardinality(shutdownCalls) < MaxShutdownsInFlight
        => ENABLED ExecuteShutdown)
  /\ [][/\ (PollOkStep \/ PollFailedStep) => shutdownTarget' = shutdownTarget
        /\ ShutdownIssued => NewShutdownCall.hostname = shutdownTarget.name]_vars

\* the confirm came when the computer's entry had become false, and its call
\* is outstanding
ConfirmedWhileSeenDown ==
  /\ arming # Null
  /\ arming.confirmed # "no"
  /\ ~arming.seenUp
  /\ BagIn([hostname |-> arming.target.name], shutdownCalls)
  /\ shutdownTarget = arming.target

(***************************************************************************)
(* The monitor.                                                            *)
(***************************************************************************)
\* C4: a poll whose query fails writes nothing: the stored status object is
\* the same object with the same entries as before, and the rest of the
\* view's state is as before.
FailedPollWritesNothing ==
  [][PollFailedStep =>
       /\ deviceStatus' = deviceStatus
       /\ UNCHANGED <<activeTab, shutdownTarget, shutdownCalls, checkResult, isChecking,
                      isReportOpen, checkCalls, alert, phase, timerOn, issued>>]_vars

\* the first poll succeeded and found the main PC up, the second one failed
FailedPollAfterGoodOne ==
  /\ issued = 2
  /\ pending = {}
  /\ nextStatus # Null
  /\ nextStatus.ref = 1
  /\ isMainOnline

\* C5: in every reachable state the stored status of 127.0.0.1 is true.
LoopbackAlwaysTrue == Truthy(deviceStatus.entries, Loopback)

\* C6: a successful poll whose map has the same keys and values as the
\* stored one, in whatever order, leaves the stored object in place.
UnchangedMapKeepsReference ==
  [][(PollOkStep /\ SameMapping(deviceStatus.entries, nextStatus'.entries)) =>
       deviceStatus'.ref = deviceStatus.ref]_vars

\* the IPs of the registry other than 127.0.0.1
ProbedIps == {ALL_DEVICES[i].ip : i \in DOMAIN ALL_DEVICES} \ {Loopback}

\* C16: the effect at mount issues one query and so does every other step
\* that issues any; the query joins the outstanding ones and its targets
\* are the registry's IPs other than 127.0.0.1, each once; a step in which
\* a query fails issues none and leaves the timer running.
OneQueryPerPoll ==
  [][/\ (phase = "rendered" /\ phase' = "mounted") => issued' = issued + 1
     /\ issued' # issued =>
          /\ issued' = issued + 1
          /\ pending' = pending \cup {issued'}
          /\ timerOn'
          /\ {queryTargets'[i] : i \in DOMAIN queryTargets'} = ProbedIps
          /\ Len(queryTargets') = Cardinality(ProbedIps)
     /\ PollFailedStep =>
          /\ issued' = issued
          /\ Cardinality(pending') = Cardinality(pending) - 1
          /\ timerOn /\ timerOn']_vars

\* the first poll's query has failed and a query of the timer is outstanding
TickQueryAfterFailure ==
  /\ issued = 2
  /\ pending = {2}
  /\ nextStatus = Null
  /\ timerOn
  /\ queryTargets = Targets

\* C18: the step that unmounts the view ends the timer, and from then on no
\* step issues a query or starts a timer.
TimerCancelledOnUnmount ==
  [][phase' = "unmounted" => (~timerOn' /\ issued' = issued /\ pending' \subseteq pending)]_vars

\* the view was unmounted with a query outstanding and polls of the timer
\* still to come
UnmountedBeforeNextTick ==
  /\ phase = "unmounted"
  /\ issued < MaxPolls
  /\ pending # {}

\* C19: whatever queries are outstanding, the timer's poll can run whenever
\* the timer exists (and the thread is free, the bound on polls not reached),
\* and its query joins the outstanding ones; when a query succeeds, the
\* stored object holds the entries built from its response.
NoOverlapPrevention ==
  /\ [](timerOn /\ alert = Null /\ issued < MaxPolls => ENABLED Tick)
  /\ [][/\ (issued' # issued /\ phase = "mounted") => pending' = pending \cup {issued'}
        /\ PollOkStep =>
             /\ nextStatus'.ref \in pending
             /\ pending' = pending \ {nextStatus'.ref}
             /\ deviceStatus'.entries = nextStatus'.entries]_vars

\* two queries are outstanding at once
TwoQueriesOutstanding ==
  /\ Cardinality(pending) >= 2
  /\ timerOn

\* the entries of an object, as a set
Entries(obj) == {obj[i] : i \in DOMAIN obj}

\* obj is what one response gives, with the entry of 127.0.0.1 true: the
\* response's entries for the other keys, one entry a key
IsResponseWithLoopback(obj, result) ==
  /\ {e \in Entries(obj) : e[1] # Loopback} = {e \in Entries(result) : e[1] # Loopback}
  /\ {e \in Entries(obj) : e[1] = Loopback} = {<<Loopback, TRUE>>}
  /\ Cardinality({obj[i][1] : i \in DOMAIN obj}) = Len(obj)

\* C20: the stored status object is empty at first; a step that changes it
\* is the arrival of one query's response, and the object stored then is
\* the one built from that response alone: its entries with 127.0.0.1 true.
StatusReplacedWhole ==
  /\ deviceStatus.entries = <<>>
  /\ [][deviceStatus' # deviceStatus =>
          /\ PollOkStep
          /\ deviceStatus' = nextStatus'
          /\ nextStatus'.ref \in pending
          /\ \E result \in PossibleResults :
               IsResponseWithLoopback(deviceStatus'.entries, result)]_vars

\* the second query's response was stored while the first query, issued
\* before it, is still outstanding
OverlappingPollStored ==
  /\ 1 \in pending
  /\ deviceStatus.ref = 2
  /\ isMainOnline

\* C21: until a query has succeeded the stored status object has no entry
\* at all; from the first success on it has an entry for every IP of the
\* registry (every response here has one for every IP queried).
EveryIpKnownAfterFirstSuccess ==
  /\ nextStatus = Null => deviceStatus.entries = <<>>
  /\ nextStatus # Null =>
       \A i \in DOMAIN ALL_DEVICES : ObjHas(deviceStatus.entries, ALL_DEVICES[i].ip)

\* a query has succeeded and found the main PC down, a later one has failed
KnownDownAfterSuccess ==
  /\ nextStatus # Null
  /\ nextStatus.ref = 1
  /\ issued = 2
  /\ pending = {}
  /\ ObjHas(deviceStatus.entries, mainRobot.ip)
  /\ ~isMainOnline

\* C27: the response of a query issued before the one whose object is stored
\* leaves the stored object as it is.
EarlierResponseNeverOverwrites ==
  [][(PollOkStep /\ nextStatus'.ref < deviceStatus.ref) => deviceStatus' = deviceStatus]_vars

\* C12: the grid does not show a device offline whose IP has no entry in the
\* stored status object.
AbsentNotShownOffline ==
  \A i \in DOMAIN ALL_DEVICES :
    (IsProbed(ALL_DEVICES[i]) /\ ~ObjHas(deviceStatus.entries, ALL_DEVICES[i].ip)) =>
      GridChip(ALL_DEVICES[i]) # "chip-offline"

(***************************************************************************)
(* The system check.                                                       *)
(***************************************************************************)
\* C8 (as stated): once a failed system check has run its course, the report
\* stored before the run is stored still, and the running flag is down.
FailedCheckKeepsPriorResult ==
  [][CheckAlertDismissed => (checkResult' = alert.prior /\ ~isChecking')]_vars

\* C8 (amended): a failed system check leaves no report stored, whatever was
\* stored before the run, and the running flag is down once its alert is
\* dismissed.
FailedCheckLeavesNoResult ==
  [][/\ CheckAlertRaised => checkResult' = Null
     /\ CheckAlertDismissed => (checkResult' = Null /\ ~isChecking')]_vars

\* a check has failed that was started with a report stored
FailedCheckHadPrior ==
  /\ alert # Null
  /\ alert.from = "run_system_check"
  /\ alert.prior # Null
  /\ checkCalls = <<>>

\* C9: at most one run_system_check call is outstanding.
AtMostOneCheckInFlight == Len(checkCalls) <= 1

\* a check is running, the main PC is up and the operator has changed tab since
CheckRunningTabChanged ==
  /\ Len(checkCalls) = 1
  /\ isMainOnline
  /\ checkCalls[1].tab # activeTab
  /\ alert = Null

\* C10: a change of tab leaves an outstanding check, its target and the stored
\* report alone; the report of a check that resolves is stored whatever tab
\* is active, and it is the report for the host the call named.
TabSwitchKeepsCheckRun ==
  [][/\ activeTab' # activeTab => UNCHANGED <<checkCalls, isChecking, checkResult>>
     /\ (CheckCompleted /\ alert' = Null) =>
          /\ checkResult' # Null
          /\ checkResult'.forHost = lastCheck'.hostname
          /\ \E i \in DOMAIN checkCalls :
               /\ checkCalls[i].hostname = lastCheck'.hostname
               /\ checkCalls' = RemoveAt(checkCalls, i)]_vars

\* a report is stored that arrived after the operator had changed tab
ReportArrivedOnOtherTab ==
  /\ checkResult # Null
  /\ ~isChecking
  /\ lastCheck # Null
  /\ lastCheck.tabChanged
  /\ checkResult.forHost = "kyubic_main"

\* C15 (as stated): the running flag is up exactly while a run_system_check
\* call is outstanding, and while it is up neither the status card nor the
\* report is on screen.
RunningExactlyWhileCallOutstanding ==
  /\ isChecking <=> Len(checkCalls) > 0
  /\ isChecking => (~StatusCardShown /\ ~ReportShown)

\* C15 (amended): the running flag is up exactly while a run_system_check
\* call is outstanding or the alert of a failed one is still on screen, and
\* while it is up neither the status card nor the report is on screen.
RunningUntilCallAndAlertDone ==
  /\ isChecking <=> (Len(checkCalls) > 0 \/ (alert # Null /\ alert.from = "run_system_check"))
  /\ isChecking => (~StatusCardShown /\ ~ReportShown)

\* a system check has failed and its alert is up, the flag with it
FailedCheckAlertUp ==
  /\ alert # Null
  /\ alert.from = "run_system_check"
  /\ isChecking
  /\ checkCalls = <<>>
  /\ isMainOnline

(***************************************************************************)
(* The report.                                                             *)
(***************************************************************************)
\* the strictly increasing maps of 1..k into 1..n
IncreasingMaps(k, n) ==
  {f \in [1..k -> 1..n] : \A i, j \in 1..k : i < j => f[i] < f[j]}

\* a and b are subsequences of s, in the order of s, that between them take
\* every place of s once
StablePartition(s, a, b) ==
  \E f \in IncreasingMaps(Len(a), Len(s)), g \in IncreasingMaps(Len(b), Len(s)) :
    /\ \A i \in DOMAIN a : a[i] = s[f[i]]
    /\ \A i \in DOMAIN b : b[i] = s[g[i]]
    /\ {f[i] : i \in DOMAIN a} \cap {g[i] : i \in DOMAIN b} = {}
    /\ {f[i] : i \in DOMAIN a} \cup {g[i] : i \in DOMAIN b} = DOMAIN s

\* C11: the failed and the passed items of the stored report are a stable
\* partition of its summary: the failed ones all have status FAIL, the
\* passed ones PASS, each place of the summary is taken by one of the two
\* groups once, in the summary's order, the sizes add up to the summary's
\* length, and the counts of the status card are the sizes of the groups.
ReportIsStablePartition ==
  checkResult # Null =>
    LET s == checkResult.summary
        f == fails(checkResult)
        p == passes(checkResult)
    IN  /\ \A i \in DOMAIN f : f[i].status = "FAIL"
        /\ \A i \in DOMAIN p : p[i].status = "PASS"
        /\ Len(p) + Len(f) = Len(s)
        /\ StablePartition(s, f, p)
        /\ failCount = Len(f)
        /\ passCount = Len(p)

\* C23: a step that opens or closes the report, or uses its toggles, leaves
\* the stored report as it is; a modal that comes on screen starts with the
\* passed items collapsed, the raw log hidden and no card's details open;
\* while it is on screen the cards of all failed items are there, whatever
\* the toggles.
ReportReopensAtDefaults ==
  [][/\ isReportOpen' # isReportOpen => checkResult' = checkResult
     /\ (modal # Null /\ modal' # Null /\ modal' # modal) => checkResult' = checkResult
     /\ (modal = Null /\ modal' # Null) =>
          /\ ~modal'.showPassItems
          /\ ~modal'.showDetails
          /\ modal'.open = {}
     /\ modal' # Null =>
          /\ isReportOpen' /\ checkResult' # Null
          /\ CardKeys("fail", fails(checkResult')) \subseteq VisibleCards(modal', checkResult')
          /\ modal'.open \subseteq VisibleCards(modal', checkResult')]_vars

\* the report is open again, at the defaults, after it was closed with the
\* passed items disclosed, the raw log shown and the details of a failed
\* item open
ReopenedAfterDisclosure ==
  /\ modal # Null
  /\ modal = [showPassItems |-> FALSE, showDetails |-> FALSE, open |-> {}]
  /\ closedModal # Null
  /\ closedModal.showPassItems
  /\ closedModal.showDetails
  /\ \E key \in closedModal.open : key[1] = "fail"
  /\ Len(passes(checkResult)) > 0

\* the report on screen has a passed item, a failed one, then a passed one
\* like the first
MixedReportOpen ==
  /\ ReportShown
  /\ Len(checkResult.summary) = 3
  /\ checkResult.summary[1].status = "PASS"
  /\ checkResult.summary[2].status = "FAIL"
  /\ checkResult.summary[3] = checkResult.summary[1]

(***************************************************************************)
(* The tabs.                                                               *)
(***************************************************************************)
\* the indexes of COMPUTERS, and the nearest ones outside
ValidIndexes == 0..(Len(COMPUTERS) - 1)

OutOfRangeIndexes == {0 - 1, Len(COMPUTERS)}

ActiveTargetIsDisplayedTab == TabShown(activeTab)

LaunchArgsFor(c, extended) ==
  [hostname |-> c.name, ip |-> c.ip, runRos |-> extended,
   remoteCommand |-> IF extended THEN "ros2_start -- bash -i -c byobu" ELSE ""]

\* C17: a click on a terminal button adds one open_ssh_terminal call to the
\* outstanding ones and nothing else; the call carries the name and the IP
\* of the computer shown and the button's mode, with the bootstrap command
\* in Docker & ROS mode and the empty string otherwise; handleLaunchSSH
\* gives these arguments for every computer and either mode.
LaunchIssuesOneCall ==
  [][/\ LaunchIssued =>
          /\ sshCalls' = sshCalls (+) SetToBag({NewSshCall})
          /\ NewSshCall.button.robot = currentRobot.name
          /\ NewSshCall.args = LaunchArgsFor(currentRobot, NewSshCall.button.useRos)
     /\ \A t \in DOMAIN COMPUTERS : \A extended \in BOOLEAN :
          OpenSshArgs(COMPUTERS[t], extended) = LaunchArgsFor(COMPUTERS[t], extended)]_vars

\* the alert of a failed launch goes up
LaunchAlertRaised == alert = Null /\ alert' # Null /\ alert'.from = "open_ssh_terminal"

\* C24: the step in which a launch fails raises one alert, takes the failed
\* call off the outstanding ones and issues no call of any kind; that step,
\* the launch itself and the dismissal of the alert leave the active tab,
\* the confirmation, the stored report, the running flag and the stored
\* status object as they are.
FailedLaunchChangesNothing ==
  [][/\ LaunchAlertRaised =>
          /\ alert' = [from |-> "open_ssh_terminal"]
          /\ BagCardinality(sshCalls') = BagCardinality(sshCalls) - 1
          /\ \A call \in BagToSet(sshCalls') : CopiesIn(call, sshCalls') <= CopiesIn(call, sshCalls)
          /\ UNCHANGED <<issued, pending, shutdownCalls, checkCalls>>
     /\ (\/ LaunchAlertRaised
         \/ LaunchIssued
         \/ (alert # Null /\ alert.from = "open_ssh_terminal" /\ alert' = Null)) =>
          UNCHANGED <<activeTab, shutdownTarget, checkResult, isChecking, isReportOpen,
                      deviceStatus>>]_vars

\* a launch made from another tab than the first has failed and its alert is up
FailedLaunchAlertUp ==
  /\ alert # Null
  /\ alert.from = "open_ssh_terminal"
  /\ sshCalls = EmptyBag
  /\ activeTab # 0
  /\ isOnline

\* a Docker & ROS launch and a plain one are outstanding
BothModesLaunched ==
  \E c1, c2 \in BagToSet(sshCalls) :
    /\ c1.button.useRos /\ c1.args.remoteCommand # ""
    /\ ~c2.button.useRos /\ c2.args.remoteCommand = ""

\* C13: while the entry of the active computer is false or absent its tab
\* is in offline mode; no step issues a terminal launch or a system check
\* for a computer whose entry is false or absent, and none issues a
\* Docker & ROS launch for a computer that does not allow it, up or not.
OfflineTargetGetsNoAction ==
  [][/\ EntryFalseOrAbsent(currentRobot.ip) => TabMode = "offline-mode"
     /\ \A t \in DOMAIN COMPUTERS :
          LET c == COMPUTERS[t]
          IN  /\ EntryFalseOrAbsent(c.ip) =>
                   /\ ~(LaunchIssued /\ NewSshCall.args.hostname = c.name)
                   /\ ~(CheckIssued /\ NewCheckCall.hostname = c.name)
              /\ ~c.allowRos =>
                   ~(/\ LaunchIssued
                     /\ NewSshCall.args.hostname = c.name
                     /\ (NewSshCall.args.runRos \/ NewSshCall.args.remoteCommand # ""))]_vars

\* the active computer's entry is false while a launch and a system check,
\* made when their computers were up, are outstanding
OfflineTabWhileOthersRun ==
  /\ ObjHas(deviceStatus.entries, currentRobot.ip)
  /\ ~isOnline
  /\ Len(checkCalls) = 1
  /\ sshCalls # EmptyBag

====
